---- MODULE Spec2Model ----
(***************************************************************************)
(* Model of the container list of the CargoBay GUI (App.tsx): the          *)
(* name-prefix grouping of containers (containerGroupCandidates,           *)
(* groupContainersByNamePrefix) and the App state the grouping is rendered *)
(* from (fetchContainers, renderContainers).                               *)
(*                                                                         *)
(* A JavaScript string is modelled as a sequence of one-character strings, *)
(* so that trimming, the suffix regex, slicing and comparison are computed *)
(* character by character as the code does.                                *)
(***************************************************************************)
EXTENDS Integers, Sequences, FiniteSets, TLC

VARIABLES
    containers,       \* App state: the snapshot last applied by setContainers
    loading,          \* App state: loading
    error,            \* App state: error text (a string; "" when none)
    connected,        \* App state: connected
    inflight,         \* the list_containers invocations awaiting a reply, oldest
                      \* first: who awaits each one, "poll" or "action"
    acting,           \* App state: id of the container being acted on ("" when none)
    invoking,         \* number of container commands awaiting a reply
    expandedContainerGroups,  \* App state: the keys mapped to true
    view,             \* which branch of renderContainers returned for the current state
    rows,             \* the rows renderContainers returned for the groups
    candidateCounts,  \* local of the last groupContainersByNamePrefix call
    candidatesById,   \* local of the last groupContainersByNamePrefix call
    bestKeys,         \* bestKey chosen for each input record, in input order
    groups,           \* value returned by the last groupContainersByNamePrefix call
    called,           \* TRUE once groupContainersByNamePrefix has run
    seen,             \* history: <<>>, or <<input, output, other>> of an earlier call;
                      \* other is TRUE once a different input has been grouped since
    candArg,          \* argument of the last containerGroupCandidates call
    candOut,          \* value returned by that call
    candDone,         \* TRUE once containerGroupCandidates has run on candArg
    pc,               \* where a groupContainersByNamePrefix call run statement by
                      \* statement stands: "idle", "first", "second", "third",
                      \* "sort", "return", "returned"
    idx,              \* position of the loop at pc in the collection it iterates
    groupsMap,        \* local groups of that call: the Map, entries in insertion order
    outGroups,        \* local out of that call
    superseded,       \* history: how many of the invocations in flight (the oldest
                      \* ones) were issued before one whose result has been applied
    lastReply,        \* history: the reply handled last
    actionsInFlight   \* history: the ids the containerAction calls under way
                      \* were made with: those whose command is awaited, and
                      \* for each list_containers invocation in flight the id
                      \* of the call that awaits it (none for a poll)

appVars == <<containers, loading, error, connected, inflight, acting, invoking,
             expandedContainerGroups, view, rows>>

callVars == <<candidateCounts, candidatesById, bestKeys, groups, called, seen>>

candVars == <<candArg, candOut, candDone>>

runVars == <<pc, idx, groupsMap, outGroups>>

history == <<superseded, lastReply, actionsInFlight>>

vars == <<appVars, callVars, candVars, runVars, history>>

-----------------------------------------------------------------------------
(* Bounds *)

MaxRecords == 3
MaxNameLen == 4
MaxInFlight == 2
MaxPollRecords == 2
MaxActions == 2
MaxRunRecords == 3
MaxKeyRecords == 3

-----------------------------------------------------------------------------
(* Strings *)

Range(s) == {s[i] : i \in 1..Len(s)}

Digits == {"0", "1", "2", "3", "4", "5", "6", "7", "8", "9"}
Separators == {"-", "_"}
WhiteSpace == {" "}

\* String.prototype.trim: drop leading and trailing white space.
trim(s) ==
    LET keep == {i \in 1..Len(s) : s[i] \notin WhiteSpace}
    IN  IF keep = {} THEN <<>>
        ELSE LET first == CHOOSE i \in keep : \A j \in keep : i <= j
                 last  == CHOOSE i \in keep : \A j \in keep : j <= i
             IN  SubSeq(s, first, last)

\* String.prototype.slice(0, i) with a 0-based end index i.
slice0(s, i) == SubSeq(s, 1, i)

\* trimmed.replace(/[-_]\d+$/, ""): the leftmost position where a separator is
\* followed by one or more digits up to the end of the string is cut off.
MatchesAt(s, i) ==
    /\ s[i] \in Separators
    /\ i < Len(s)
    /\ \A j \in (i + 1)..Len(s) : s[j] \in Digits

\* Variant: trailing digits go without a separator before them (/[-_]?\d+$/).
stripSuffixDigits(s) ==
    LET digits == {i \in 1..Len(s) : \A j \in i..Len(s) : s[j] \in Digits}
    IN  IF digits = {} THEN s
        ELSE LET i == CHOOSE h \in digits : \A g \in digits : h <= g
             IN  IF i > 1 /\ s[i - 1] \in Separators THEN SubSeq(s, 1, i - 2)
                 ELSE SubSeq(s, 1, i - 1)

\* Variant: the suffix is stripped again and again (a recursive strip).
RECURSIVE stripSuffixAll(_)
stripSuffixAll(s) ==
    LET hits == {i \in 1..Len(s) : MatchesAt(s, i)}
    IN  IF hits = {} THEN s
        ELSE LET i == CHOOSE h \in hits : \A g \in hits : h <= g
             IN  stripSuffixAll(SubSeq(s, 1, i - 1))

stripSuffix(s) ==
    LET hits == {i \in 1..Len(s) : MatchesAt(s, i)}
    IN  IF hits = {} THEN s
        ELSE LET i == CHOOSE h \in hits : \A g \in hits : h <= g
             IN  SubSeq(s, 1, i - 1)

\* Set.prototype.add on a Set kept in insertion order.
setAdd(list, x) == IF x \in Range(list) THEN list ELSE Append(list, x)

\* Array.from(new Set(list)).
RECURSIVE uniqueFrom(_, _)
uniqueFrom(list, acc) ==
    IF list = <<>> THEN acc ELSE uniqueFrom(Tail(list), setAdd(acc, Head(list)))

unique(list) == uniqueFrom(list, <<>>)

\* Collation rank of a character for localeCompare (root collation: white
\* space, then "_", "-", then digits, then letters).
CharRank(ch) ==
    CASE ch = " " -> 0
      [] ch = "_" -> 1
      [] ch = "-" -> 2
      [] ch = "0" -> 10 [] ch = "1" -> 11 [] ch = "2" -> 12 [] ch = "3" -> 13 [] ch = "4" -> 14
      [] ch = "5" -> 15 [] ch = "6" -> 16 [] ch = "7" -> 17 [] ch = "8" -> 18 [] ch = "9" -> 19
      [] ch = "a" -> 30 [] ch = "b" -> 31 [] ch = "c" -> 32 [] ch = "d" -> 33
      [] ch = "e" -> 34 [] ch = "f" -> 35 [] ch = "g" -> 36 [] ch = "h" -> 37
      [] ch = "i" -> 38 [] ch = "j" -> 39 [] ch = "k" -> 40 [] ch = "l" -> 41
      [] ch = "m" -> 42 [] ch = "n" -> 43 [] ch = "o" -> 44 [] ch = "p" -> 45
      [] ch = "q" -> 46 [] ch = "r" -> 47 [] ch = "s" -> 48 [] ch = "t" -> 49
      [] ch = "u" -> 50 [] ch = "v" -> 51 [] ch = "w" -> 52 [] ch = "x" -> 53
      [] ch = "y" -> 54 [] ch = "z" -> 55
      [] OTHER -> 60

\* a.localeCompare(b): negative, zero or positive.
RECURSIVE localeCompare(_, _)
localeCompare(a, b) ==
    IF a = <<>> /\ b = <<>> THEN 0
    ELSE IF a = <<>> THEN -1
    ELSE IF b = <<>> THEN 1
    ELSE IF CharRank(Head(a)) < CharRank(Head(b)) THEN -1
    ELSE IF CharRank(Head(a)) > CharRank(Head(b)) THEN 1
    ELSE localeCompare(Tail(a), Tail(b))

-----------------------------------------------------------------------------
(* containerGroupCandidates *)

\* The loop over i = 0 .. trimmed.length - 1 (here i is the 1-based position).
RECURSIVE prefixLoop(_, _, _)
prefixLoop(trimmed, i, out) ==
    IF i > Len(trimmed) THEN out
    ELSE IF trimmed[i] \in Separators
         THEN LET prefix == slice0(trimmed, i - 1)
              IN  prefixLoop(trimmed, i + 1,
                             IF prefix # <<>> THEN setAdd(out, prefix) ELSE out)
         ELSE prefixLoop(trimmed, i + 1, out)

addBase(out, base) == IF base # <<>> THEN setAdd(out, base) ELSE out

containerGroupCandidates(name) ==
    LET trimmed == trim(name)
    IN  IF trimmed = <<>> THEN <<>>
        ELSE prefixLoop(trimmed, 1, addBase(<<trimmed>>, stripSuffix(trimmed)))

-----------------------------------------------------------------------------
(* Maps (JavaScript Map): a function from the keys set so far to their values *)

emptyMap == <<>>

mapHas(m, k) == k \in DOMAIN m

mapSet(m, k, v) == [x \in (DOMAIN m) \cup {k} |-> IF x = k THEN v ELSE m[x]]

\* candidateCounts.get(cand) || 0
getCount(counts, cand) == IF mapHas(counts, cand) THEN counts[cand] ELSE 0

-----------------------------------------------------------------------------
(* groupContainersByNamePrefix *)

\* Variant: the id does not stand in for an empty name.
nameOnly(c) == c.name

\* c.name || c.id: the id stands in only when the name is the empty string.
nameOrId(c) == IF c.name # <<>> THEN c.name ELSE c.id

\* (c.name || c.id).trim()
trimmedName(c) == trim(nameOrId(c))

\* Variant: the map is kept between calls (a module-level cache).
countsAtEntryKept(previous) == previous

\* const candidateCounts = new Map(): the map a call starts from is a new,
\* empty one, whatever the previous call left behind.
countsAtEntry(previous) == emptyMap

\* for (const cand of uniqueCandidates) candidateCounts.set(cand, (get || 0) + 1)
RECURSIVE countCandidates(_, _)
countCandidates(cands, counts) ==
    IF cands = <<>> THEN counts
    ELSE countCandidates(Tail(cands),
                         mapSet(counts, Head(cands), getCount(counts, Head(cands)) + 1))

\* Variant: the candidates are collected in arrays, never in a Set, so a string
\* that two rules produce is listed twice.
RECURSIVE prefixesOf(_, _)
prefixesOf(trimmed, i) ==
    IF i > Len(trimmed) THEN <<>>
    ELSE (IF trimmed[i] \in Separators /\ i > 1 THEN <<slice0(trimmed, i - 1)>> ELSE <<>>)
         \o prefixesOf(trimmed, i + 1)

duplicatedCandidates(c) ==
    LET trimmed == trimmedName(c)
        base    == stripSuffix(trimmed)
    IN  IF trimmed = <<>> THEN <<>>
        ELSE <<trimmed>> \o (IF base # <<>> THEN <<base>> ELSE <<>>) \o prefixesOf(trimmed, 1)

\* Array.from(new Set(containerGroupCandidates(name)))
uniqueCandidates(c) == unique(containerGroupCandidates(trimmedName(c)))

\* First loop: fills candidatesById and candidateCounts.
RECURSIVE firstLoop(_, _, _, _)
firstLoop(cs, i, counts, byId) ==
    IF i > Len(cs) THEN [counts |-> counts, byId |-> byId]
    ELSE LET cands == uniqueCandidates(cs[i])
         IN  firstLoop(cs, i + 1, countCandidates(cands, counts),
                       mapSet(byId, cs[i].id, cands))

\* Variant: a candidate needs three holders to be eligible.
skipCandidateBelowThree(count) == count < 3

\* if (count < 2) continue
skipCandidate(count) == count < 2

\* Variant: a tie on the count goes to the later candidate.
betterCandidateLater(count, candLen, bestCount, bestLen) == count >= bestCount

\* Variant: the longest eligible candidate wins, whatever its count.
betterCandidateLongest(count, candLen, bestCount, bestLen) == candLen > bestLen

\* Variant: no tie-break on length, the first candidate with the top count wins.
betterCandidateFirst(count, candLen, bestCount, bestLen) == count > bestCount

\* count > bestCount || (count === bestCount && cand.length > bestLen)
betterCandidate(count, candLen, bestCount, bestLen) ==
    \/ count > bestCount
    \/ (count = bestCount /\ candLen > bestLen)

\* for (const cand of candidates) { ... } over best = (bestKey, bestCount, bestLen)
RECURSIVE selectLoop(_, _, _)
selectLoop(cands, counts, best) ==
    IF cands = <<>> THEN best
    ELSE LET cand  == Head(cands)
             count == getCount(counts, cand)
         IN  IF skipCandidate(count) THEN selectLoop(Tail(cands), counts, best)
             ELSE IF betterCandidate(count, Len(cand), best.count, best.len)
                  THEN selectLoop(Tail(cands), counts,
                                  [key |-> cand, count |-> count, len |-> Len(cand)])
                  ELSE selectLoop(Tail(cands), counts, best)

\* candidatesById.get(c.id) || containerGroupCandidates(name): an array, even an
\* empty one, is truthy, so the right-hand side is used only for a missing id.
candidatesFor(byId, c) ==
    IF mapHas(byId, c.id) THEN byId[c.id] ELSE containerGroupCandidates(trimmedName(c))

\* Variant: bestKey starts as the name less its instance suffix.
selectKeyFromBase(c, counts, byId) ==
    selectLoop(candidatesFor(byId, c), counts,
               [key |-> stripSuffix(trimmedName(c)), count |-> 1, len |-> 0]).key

\* let bestKey = name; let bestCount = 1; let bestLen = 0; then the loop.
selectKey(c, counts, byId) ==
    selectLoop(candidatesFor(byId, c), counts,
               [key |-> trimmedName(c), count |-> 1, len |-> 0]).key

\* Variant: groups.set(bestKey, [c]) also when the key is there already.
addToGroupOverwrite(gs, key, c) ==
    IF \E k \in 1..Len(gs) : gs[k].key = key
    THEN [k \in 1..Len(gs) |->
             IF gs[k].key = key THEN [key |-> key, items |-> <<c>>] ELSE gs[k]]
    ELSE Append(gs, [key |-> key, items |-> <<c>>])

\* Variant: a new key is entered with an empty array and the record is pushed
\* only onto an array that was there already.
addToGroupEmptyFirst(gs, key, c) ==
    IF \E k \in 1..Len(gs) : gs[k].key = key
    THEN [k \in 1..Len(gs) |->
             IF gs[k].key = key
             THEN [key |-> key, items |-> Append(gs[k].items, c)]
             ELSE gs[k]]
    ELSE Append(gs, [key |-> key, items |-> <<>>])

\* groups.get(bestKey) ? existing.push(c) : groups.set(bestKey, [c]); the Map is
\* a sequence of entries in insertion order.
addToGroup(gs, key, c) ==
    IF \E k \in 1..Len(gs) : gs[k].key = key
    THEN [k \in 1..Len(gs) |->
             IF gs[k].key = key
             THEN [key |-> key, items |-> Append(gs[k].items, c)]
             ELSE gs[k]]
    ELSE Append(gs, [key |-> key, items |-> <<c>>])

\* Second loop: chooses each record's key and files the record under it.
RECURSIVE secondLoop(_, _, _, _, _, _)
secondLoop(cs, i, counts, byId, gs, keys) ==
    IF i > Len(cs) THEN [groups |-> gs, keys |-> keys]
    ELSE LET key == selectKey(cs[i], counts, byId)
         IN  secondLoop(cs, i + 1, counts, byId, addToGroup(gs, key, cs[i]),
                        Append(keys, key))

isRunning(c) == c.state = "running"

\* Variant: equal names are not told apart by id.
memberCompareNoId(a, b) ==
    IF isRunning(a) # isRunning(b) THEN (IF isRunning(a) THEN -1 ELSE 1)
    ELSE localeCompare(nameOrId(a), nameOrId(b))

\* Variant: the state is not looked at.
memberCompareByName(a, b) ==
    LET an == localeCompare(nameOrId(a), nameOrId(b))
    IN  IF an # 0 THEN an ELSE localeCompare(a.id, b.id)

\* The comparator of items.sort.
memberCompare(a, b) ==
    IF isRunning(a) # isRunning(b) THEN (IF isRunning(a) THEN -1 ELSE 1)
    ELSE LET an == localeCompare(nameOrId(a), nameOrId(b))
         IN  IF an # 0 THEN an ELSE localeCompare(a.id, b.id)

\* Variant: groups with a running member are not put first.
groupCompareBySize(a, b) ==
    IF Len(a.containers) # Len(b.containers)
    THEN Len(b.containers) - Len(a.containers)
    ELSE localeCompare(a.key, b.key)

\* Variant: the keys are not compared, equal groups stay in insertion order.
groupCompareNoKey(a, b) ==
    IF (a.runningCount > 0) # (b.runningCount > 0)
    THEN (IF a.runningCount > 0 THEN -1 ELSE 1)
    ELSE Len(b.containers) - Len(a.containers)

\* Variant: the sizes are not compared.
groupCompareByKey(a, b) ==
    IF (a.runningCount > 0) # (b.runningCount > 0)
    THEN (IF a.runningCount > 0 THEN -1 ELSE 1)
    ELSE localeCompare(a.key, b.key)

\* The comparator of out.sort.
groupCompare(a, b) ==
    IF (a.runningCount > 0) # (b.runningCount > 0)
    THEN (IF a.runningCount > 0 THEN -1 ELSE 1)
    ELSE IF Len(a.containers) # Len(b.containers)
         THEN Len(b.containers) - Len(a.containers)
         ELSE localeCompare(a.key, b.key)

\* Array.prototype.sort is stable: an element goes behind every element that
\* does not compare greater than it.  cmp is "member" or "group".
compareBy(cmp, a, b) == IF cmp = "member" THEN memberCompare(a, b) ELSE groupCompare(a, b)

insertSorted(cmp, sorted, x) ==
    LET after == {k \in 1..Len(sorted) : compareBy(cmp, sorted[k], x) > 0}
        pos   == IF after = {} THEN Len(sorted) + 1
                 ELSE CHOOSE k \in after : \A j \in after : k <= j
    IN  SubSeq(sorted, 1, pos - 1) \o <<x>> \o SubSeq(sorted, pos, Len(sorted))

RECURSIVE sortFrom(_, _, _)
sortFrom(cmp, list, sorted) ==
    IF list = <<>> THEN sorted
    ELSE sortFrom(cmp, Tail(list), insertSorted(cmp, sorted, Head(list)))

sort(cmp, list) == sortFrom(cmp, list, <<>>)

\* items.filter((c) => c.state === "running").length
RECURSIVE countRunning(_)
countRunning(items) ==
    IF items = <<>> THEN 0
    ELSE (IF isRunning(Head(items)) THEN 1 ELSE 0) + countRunning(Tail(items))

\* Variant: the running members are not subtracted.
stoppedOfAll(items, runningCount) == Len(items)

\* const stoppedCount = items.length - runningCount
stoppedOf(items, runningCount) == Len(items) - runningCount

\* The body of the third loop: one ContainerGroup per Map entry.
makeGroup(entry) ==
    LET runningCount == countRunning(entry.items)
    IN  [key          |-> entry.key,
         containers   |-> sort("member", entry.items),
         runningCount |-> runningCount,
         stoppedCount |-> stoppedOf(entry.items, runningCount)]

\* Variant: a group for the records without a key is always emitted.
thirdLoopWithRest(gs) ==
    Append([k \in 1..Len(gs) |-> makeGroup(gs[k])], makeGroup([key |-> <<>>, items |-> <<>>]))

\* for (const [key, items] of groups) { ...; out.push(...) }
thirdLoop(gs) == [k \in 1..Len(gs) |-> makeGroup(gs[k])]

\* The whole function, from the map it starts with: its result (out) and the
\* locals the result was computed from.
groupContainersByNamePrefix(cs, counts0) ==
    LET first  == firstLoop(cs, 1, counts0, emptyMap)
        second == secondLoop(cs, 1, first.counts, first.byId, <<>>, <<>>)
    IN  [counts |-> first.counts,
         byId   |-> first.byId,
         keys   |-> second.keys,
         out    |-> sort("group", thirdLoop(second.groups))]

-----------------------------------------------------------------------------
(* Inputs *)

States == {"running", "exited"}

\* Container ids: the empty id breaks the contract of list_containers and is
\* there for the claims that speak of it.
IdPool == {<<>>, <<"a">>, <<"x">>, <<"y">>}

\* Container names: empty, blank, with leading white space, with an instance
\* suffix, with two separators and no instance suffix.
NamePool ==
    { <<>>,
      <<" ">>,
      <<" ", "a">>,
      <<"a", "-", "b", "-", "1">>,
      <<"a", "-", "b", "_", "c">> }

\* Container ids are unique within one list_containers result.
distinctIds(s) == \A i, j \in 1..Len(s) : i # j => s[i].id # s[j].id

SnapshotsOf(names, ids, n) ==
    UNION {{s \in [1..k -> [id : ids, name : names, state : States]] : distinctIds(s)} :
           k \in 0..n}

Snapshots == SnapshotsOf(NamePool, IdPool, MaxRecords)

\* The snapshots of the specification's worked examples.  An example gives the
\* names and states of its records; the records come in any order and, where
\* the example does not say, with ids c1, c2, c3 in any assignment.
c1 == <<"c", "1">>
c2 == <<"c", "2">>
c3 == <<"c", "3">>

web1 == <<"w", "e", "b", "-", "1">>
web2 == <<"w", "e", "b", "-", "2">>
api1 == <<"a", "p", "i", "-", "1">>
web  == <<"w", "e", "b">>

db         == <<"d", "b">>
dbReplica  == <<"d", "b", "-", "r", "e", "p", "l", "i", "c", "a">>
dbReplica1 == dbReplica \o <<"-", "1">>
dbReplica2 == dbReplica \o <<"-", "2">>

\* The orderings of the records that carry the given name/state pairs, one
\* record each, under every assignment of the ids.
Orderings(pairs, ids) ==
    {s \in [1..Cardinality(pairs) -> [id : ids, name : {p[1] : p \in pairs}, state : States]] :
        /\ distinctIds(s)
        /\ {<<s[i].name, s[i].state>> : i \in 1..Len(s)} = pairs}

ScenarioA == Orderings({<<web1, "running">>, <<web2, "running">>, <<api1, "running">>},
                       {c1, c2, c3})

ScenarioB == Orderings({<<db, "running">>, <<dbReplica1, "exited">>, <<dbReplica2, "running">>},
                       {c1, c2, c3})

ScenarioC == {<<[id |-> c1, name |-> <<>>, state |-> st]>> : st \in States}

ScenarioD == {<<>>}

Scenarios == ScenarioA \cup ScenarioB \cup ScenarioC \cup ScenarioD

-----------------------------------------------------------------------------
(* groupContainersByNamePrefix applied to a snapshot *)

noCall ==
    /\ candidateCounts = emptyMap
    /\ candidatesById = emptyMap
    /\ bestKeys = <<>>
    /\ groups = <<>>
    /\ called = FALSE
    /\ seen = <<>>

noCandidates ==
    /\ candArg = <<>>
    /\ candOut = <<>>
    /\ candDone = FALSE

\* Nothing asked of the backend, nothing clicked, nothing rendered.
idle ==
    /\ inflight = <<>>
    /\ acting = <<>>
    /\ invoking = 0
    /\ expandedContainerGroups = {}
    /\ rows = <<>>

\* No call is being run statement by statement.
noRun ==
    /\ pc = "idle"
    /\ idx = 0
    /\ groupsMap = <<>>
    /\ outGroups = <<>>

noHistory ==
    /\ superseded = 0
    /\ lastReply = [kind |-> "none"]
    /\ actionsInFlight = [commands |-> <<>>, refreshes |-> <<>>]

InitGroup ==
    /\ containers \in Snapshots \cup Scenarios
    /\ loading = FALSE
    /\ error = ""
    /\ connected = TRUE
    /\ idle
    /\ view = "none"
    /\ noCall
    /\ noCandidates
    /\ noRun
    /\ noHistory

\* One call groupContainersByNamePrefix(cs): its locals and its result.
callGroup(cs) ==
    \E r \in {groupContainersByNamePrefix(cs, countsAtEntry(candidateCounts))} :
        /\ candidateCounts' = r.counts
        /\ candidatesById' = r.byId
        /\ bestKeys' = r.keys
        /\ groups' = r.out
        /\ called' = TRUE
        /\ seen' = IF seen # <<>> /\ seen[1] # cs THEN <<seen[1], seen[2], TRUE>> ELSE seen

Group ==
    /\ ~called
    /\ callGroup(containers)
    /\ UNCHANGED <<appVars, candVars, runVars, history>>

NextGroup == Group

SpecGroup == InitGroup /\ [][NextGroup]_vars

-----------------------------------------------------------------------------
(* One call on names that are prefixes of one another (SpecKey) *)

\* Names with up to three candidates, each the prefix of the next; a name
\* with another first prefix; a blank name; the empty name, for which the id
\* stands in (the id "a" is a candidate of the names as well).
KeyNames ==
    { <<>>,
      <<" ">>,
      <<"a">>,
      <<"a", "-", "b">>,
      <<"a", "-", "b", "-", "1">>,
      <<"b", "-", "1">> }

\* The keys are selected without a look at the state of a record.
KeySnapshots ==
    UNION {{s \in [1..k -> [id : IdPool, name : KeyNames, state : {"running"}]] :
               distinctIds(s)} :
           k \in 0..MaxKeyRecords}

InitKey ==
    /\ containers \in KeySnapshots
    /\ loading = FALSE
    /\ error = ""
    /\ connected = TRUE
    /\ idle
    /\ view = "none"
    /\ noCall
    /\ noCandidates
    /\ noRun
    /\ noHistory

SpecKey == InitKey /\ [][NextGroup]_vars

-----------------------------------------------------------------------------
(* groupContainersByNamePrefix run statement by statement (SpecRun) *)

\* Names of the snapshots run statement by statement: empty (the id stands
\* in) and with an instance suffix.
RunNames == {<<>>, <<"a", "-", "1">>}

RunSnapshots == SnapshotsOf(RunNames, IdPool, MaxRunRecords)

InitRun ==
    /\ containers = <<>>
    /\ loading = FALSE
    /\ error = ""
    /\ connected = TRUE
    /\ idle
    /\ view = "none"
    /\ noCall
    /\ noCandidates
    /\ noRun
    /\ noHistory

\* Entry, with cs for the parameter containers: const candidateCounts = new
\* Map(); const candidatesById = new Map().
RunCall(cs) ==
    /\ pc = "idle"
    /\ ~called
    /\ containers' = cs
    /\ pc' = "first"
    /\ idx' = 1
    /\ candidateCounts' = countsAtEntry(candidateCounts)
    /\ candidatesById' = emptyMap
    /\ UNCHANGED <<bestKeys, groups, called, seen, groupsMap, outGroups>>
    /\ UNCHANGED <<loading, error, connected, inflight, acting, invoking,
                   expandedContainerGroups, view, rows>>
    /\ UNCHANGED <<candVars, history>>

\* Variant: the id does not stand in for an empty name, and trim() is called
\* on undefined: a TypeError leaves the function.
FirstLoopBodyThrows ==
    /\ pc = "first"
    /\ idx <= Len(containers)
    /\ IF containers[idx].name = <<>>
       THEN /\ pc' = "threw"
            /\ UNCHANGED <<candidatesById, candidateCounts, idx>>
       ELSE \E cands \in {uniqueCandidates(containers[idx])} :
                /\ candidatesById' = mapSet(candidatesById, containers[idx].id, cands)
                /\ candidateCounts' = countCandidates(cands, candidateCounts)
                /\ idx' = idx + 1
                /\ UNCHANGED pc
    /\ UNCHANGED <<bestKeys, groups, called, seen, groupsMap, outGroups>>
    /\ UNCHANGED <<appVars, candVars, history>>

\* for (const c of containers) { ... }, first loop, one record.
FirstLoopBody ==
    /\ pc = "first"
    /\ idx <= Len(containers)
    /\ \E cands \in {uniqueCandidates(containers[idx])} :
           /\ candidatesById' = mapSet(candidatesById, containers[idx].id, cands)
           /\ candidateCounts' = countCandidates(cands, candidateCounts)
    /\ idx' = idx + 1
    /\ UNCHANGED <<pc, bestKeys, groups, called, seen, groupsMap, outGroups>>
    /\ UNCHANGED <<appVars, candVars, history>>

\* The first loop is over: const groups = new Map().
FirstLoopExit ==
    /\ pc = "first"
    /\ idx > Len(containers)
    /\ pc' = "second"
    /\ idx' = 1
    /\ groupsMap' = <<>>
    /\ UNCHANGED <<candidateCounts, candidatesById, bestKeys, groups, called, seen, outGroups>>
    /\ UNCHANGED <<appVars, candVars, history>>

\* for (const c of containers) { ... }, second loop, one record: its key is
\* chosen and the record is filed under it.
SecondLoopBody ==
    /\ pc = "second"
    /\ idx <= Len(containers)
    /\ \E key \in {selectKey(containers[idx], candidateCounts, candidatesById)} :
           /\ groupsMap' = addToGroup(groupsMap, key, containers[idx])
           /\ bestKeys' = Append(bestKeys, key)
    /\ idx' = idx + 1
    /\ UNCHANGED <<pc, candidateCounts, candidatesById, groups, called, seen, outGroups>>
    /\ UNCHANGED <<appVars, candVars, history>>

\* The second loop is over: const out = [].
SecondLoopExit ==
    /\ pc = "second"
    /\ idx > Len(containers)
    /\ pc' = "third"
    /\ idx' = 1
    /\ outGroups' = <<>>
    /\ UNCHANGED <<candidateCounts, candidatesById, bestKeys, groups, called, seen,
                   groupsMap>>
    /\ UNCHANGED <<appVars, candVars, history>>

\* Variant: the snapshot is sorted as well, in place.
ThirdLoopBodySortsInput ==
    /\ pc = "third"
    /\ idx <= Len(groupsMap)
    /\ \E g \in {makeGroup(groupsMap[idx])} :
           /\ groupsMap' = [groupsMap EXCEPT ![idx].items = g.containers]
           /\ outGroups' = Append(outGroups, g)
    /\ containers' = sort("member", containers)
    /\ idx' = idx + 1
    /\ UNCHANGED <<pc, candidateCounts, candidatesById, bestKeys, groups, called, seen>>
    /\ UNCHANGED <<loading, error, connected, inflight, acting, invoking,
                   expandedContainerGroups, view, rows>>
    /\ UNCHANGED <<candVars, history>>

\* for (const [key, items] of groups) { ... }, one entry: items is
\* sorted in place, and the group pushed onto out has this array as its
\* containers.
ThirdLoopBody ==
    /\ pc = "third"
    /\ idx <= Len(groupsMap)
    /\ \E g \in {makeGroup(groupsMap[idx])} :
           /\ groupsMap' = [groupsMap EXCEPT ![idx].items = g.containers]
           /\ outGroups' = Append(outGroups, g)
    /\ idx' = idx + 1
    /\ UNCHANGED <<pc, candidateCounts, candidatesById, bestKeys, groups, called, seen>>
    /\ UNCHANGED <<appVars, candVars, history>>

ThirdLoopExit ==
    /\ pc = "third"
    /\ idx > Len(groupsMap)
    /\ pc' = "sort"
    /\ UNCHANGED <<idx, groupsMap, outGroups>>
    /\ UNCHANGED <<appVars, callVars, candVars, history>>

\* out.sort(...), in place.
RunSort ==
    /\ pc = "sort"
    /\ outGroups' = sort("group", outGroups)
    /\ pc' = "return"
    /\ UNCHANGED <<idx, groupsMap>>
    /\ UNCHANGED <<appVars, callVars, candVars, history>>

\* return out
RunReturn ==
    /\ pc = "return"
    /\ groups' = outGroups
    /\ called' = TRUE
    /\ pc' = "returned"
    /\ UNCHANGED <<candidateCounts, candidatesById, bestKeys, seen>>
    /\ UNCHANGED <<idx, groupsMap, outGroups>>
    /\ UNCHANGED <<appVars, candVars, history>>

NextRun ==
    \/ pc = "idle" /\ \E cs \in RunSnapshots : RunCall(cs)
    \/ FirstLoopBody
    \/ FirstLoopExit
    \/ SecondLoopBody
    \/ SecondLoopExit
    \/ ThirdLoopBody
    \/ ThirdLoopExit
    \/ RunSort
    \/ RunReturn

SpecRun == InitRun /\ [][NextRun]_vars

-----------------------------------------------------------------------------
(* containerGroupCandidates applied to a name *)

CandAlphabet == {"a", "b", "-", "_", "1", " "}

RECURSIVE StringsUpTo(_, _)
StringsUpTo(chars, n) ==
    IF n = 0 THEN {<<>>}
    ELSE LET shorter == StringsUpTo(chars, n - 1)
         IN  shorter \cup {Append(s, ch) : s \in shorter, ch \in chars}

\* "web-01-2", the name the specification discusses.
Web012 == <<"w", "e", "b", "-", "0", "1", "-", "2">>

CandNames == StringsUpTo(CandAlphabet, MaxNameLen) \cup {Web012}

appConstructed ==
    /\ containers = <<>>
    /\ loading = TRUE
    /\ error = ""
    /\ connected = FALSE
    /\ idle
    /\ view = "loading"

InitCand ==
    /\ appConstructed
    /\ noCall
    /\ noRun
    /\ noHistory
    /\ candArg \in CandNames
    /\ candOut = <<>>
    /\ candDone = FALSE

Candidates ==
    /\ ~candDone
    /\ candOut' = containerGroupCandidates(candArg)
    /\ candDone' = TRUE
    /\ UNCHANGED <<appVars, callVars, candArg, runVars, history>>

NextCand == Candidates

SpecCand == InitCand /\ [][NextCand]_vars

-----------------------------------------------------------------------------
(* The App: polling list_containers and rendering the container page *)

PollIds == {<<"x">>, <<"y">>, <<"z">>}

\* What list_containers reports in the App model: containers named "a"
\* (running) and "a-1" (exited).
PollKinds ==
    { [name |-> <<"a">>, state |-> "running"],
      [name |-> <<"a", "-", "1">>, state |-> "exited"] }

PollSnapshots ==
    UNION {{s \in [1..k -> {[id |-> i, name |-> kd.name, state |-> kd.state] :
                            i \in PollIds, kd \in PollKinds}] : distinctIds(s)} :
           k \in 0..MaxPollRecords}

Errors == {"docker: connection refused"}

\* renderContainerCard(c, opts): the row of one container; its buttons are
\* disabled while the container is the one being acted on.
renderContainerCard(c, child, act) ==
    [kind |-> "card", container |-> c, child |-> child, disabled |-> (act = c.id)]

\* Variant: a group none of whose members is running is shown as the plain row
\* of its first member.
renderGroupByRunning(g, expanded, act) ==
    IF Len(g.containers) <= 1 \/ g.runningCount = 0
    THEN renderContainerCard(g.containers[1], FALSE, act)
    ELSE [kind       |-> "header",
          key        |-> g.key,
          expanded   |-> (g.key \in expanded),
          hasRunning |-> (g.runningCount > 0),
          runningCount |-> g.runningCount,
          stoppedCount |-> g.stoppedCount,
          children   |-> IF g.key \in expanded
                         THEN [j \in 1..Len(g.containers) |->
                                  renderContainerCard(g.containers[j], TRUE, act)]
                         ELSE <<>>]

\* The body of groups.map((g) => ...): the card of the only member, or the
\* header of the group and, while the group is expanded, the cards of its
\* members.  g.containers[0] of a group without members is undefined, and
\* renderContainerCard throws on it.
renderGroup(g, expanded, act) ==
    IF Len(g.containers) <= 1
    THEN IF Len(g.containers) = 0 THEN [kind |-> "TypeError"]
         ELSE renderContainerCard(g.containers[1], FALSE, act)
    ELSE [kind       |-> "header",
          key        |-> g.key,
          expanded   |-> (g.key \in expanded),
          hasRunning |-> (g.runningCount > 0),
          runningCount |-> g.runningCount,
          stoppedCount |-> g.stoppedCount,
          children   |-> IF g.key \in expanded
                         THEN [j \in 1..Len(g.containers) |->
                                  renderContainerCard(g.containers[j], TRUE, act)]
                         ELSE <<>>]

\* renderContainers for the state (cs, ld, err, expanded, act): which branch
\* returns, and in the last one the call of groupContainersByNamePrefix and
\* the rows of its groups.
renderContainers(cs, ld, err, expanded, act) ==
    IF ld THEN
        /\ view' = "loading"
        /\ rows' = <<>>
        /\ UNCHANGED callVars
    ELSE IF err # "" THEN
        /\ view' = "error"
        /\ rows' = <<>>
        /\ UNCHANGED callVars
    ELSE IF Len(cs) = 0 THEN
        /\ view' = "empty"
        /\ rows' = <<>>
        /\ UNCHANGED callVars
    ELSE
        /\ view' = "groups"
        /\ callGroup(cs)
        /\ rows' = [g \in 1..Len(groups') |-> renderGroup(groups'[g], expanded, act)]

Init ==
    /\ appConstructed
    /\ noCall
    /\ noCandidates
    /\ noRun
    /\ noHistory

\* array.splice(k, 1) on a copy: the sequence without its k-th element.
without(seq, k) == SubSeq(seq, 1, k - 1) \o SubSeq(seq, k + 1, Len(seq))

\* fetchContainers up to its await: list_containers is invoked (by the mount
\* effect or the 3 s interval).
FetchStart ==
    /\ Len(inflight) < MaxInFlight
    /\ inflight' = Append(inflight, "poll")
    /\ UNCHANGED <<containers, loading, error, connected, acting, invoking,
                   expandedContainerGroups, view, rows>>
    /\ UNCHANGED <<callVars, candVars, runVars>>

\* finally { setActing("") } of containerAction, which runs when the
\* fetchContainers it awaited has returned.
actingAfter(owner) == IF owner = "action" THEN <<>> ELSE acting

\* Variant: the error of an earlier failure is left in place.
FetchResolveKeepsError(k, result) ==
    /\ k \in 1..Len(inflight)
    /\ inflight' = without(inflight, k)
    /\ containers' = result
    /\ connected' = TRUE
    /\ loading' = FALSE
    /\ acting' = actingAfter(inflight[k])
    /\ renderContainers(result, FALSE, error, expandedContainerGroups, acting')
    /\ UNCHANGED <<error, invoking, expandedContainerGroups, candVars, runVars>>

\* fetchContainers after the await, the k-th invocation in flight resolved
\* with result.
FetchResolve(k, result) ==
    /\ k \in 1..Len(inflight)
    /\ inflight' = without(inflight, k)
    /\ containers' = result
    /\ error' = ""
    /\ connected' = TRUE
    /\ loading' = FALSE
    /\ acting' = actingAfter(inflight[k])
    /\ renderContainers(result, FALSE, "", expandedContainerGroups, acting')
    /\ UNCHANGED <<invoking, expandedContainerGroups, candVars, runVars>>

\* Variant: a failed refresh empties the stored snapshot.
FetchRejectClears(k, e) ==
    /\ k \in 1..Len(inflight)
    /\ inflight' = without(inflight, k)
    /\ containers' = <<>>
    /\ error' = e
    /\ connected' = FALSE
    /\ loading' = FALSE
    /\ acting' = actingAfter(inflight[k])
    /\ renderContainers(<<>>, FALSE, e, expandedContainerGroups, acting')
    /\ UNCHANGED <<invoking, expandedContainerGroups, candVars, runVars>>

\* fetchContainers after the await, the k-th invocation in flight rejected
\* with e.
FetchReject(k, e) ==
    /\ k \in 1..Len(inflight)
    /\ inflight' = without(inflight, k)
    /\ error' = e
    /\ connected' = FALSE
    /\ loading' = FALSE
    /\ acting' = actingAfter(inflight[k])
    /\ renderContainers(containers, FALSE, e, expandedContainerGroups, acting')
    /\ UNCHANGED <<containers, invoking, expandedContainerGroups, candVars, runVars>>

\* The containers whose cards, and so whose buttons, are on the page.
cardsOf(row) ==
    IF row.kind = "card" THEN {row}
    ELSE IF row.kind = "header" THEN Range(row.children)
    ELSE {}

shownCards == UNION {cardsOf(rows[g]) : g \in 1..Len(rows)}

\* containerAction(cmd, id) up to its first await, from the stop, start or
\* delete button of a card: setActing(id) and the command is invoked.
containerActionStart(id) ==
    /\ invoking < MaxActions
    /\ \E card \in shownCards : card.container.id = id /\ ~card.disabled
    /\ acting' = id
    /\ invoking' = invoking + 1
    /\ renderContainers(containers, loading, error, expandedContainerGroups, id)
    /\ UNCHANGED <<containers, loading, error, connected, inflight,
                   expandedContainerGroups, candVars, runVars>>

\* containerAction after its first await, the command resolved: it goes on
\* to await fetchContainers().
containerActionResolve ==
    /\ invoking > 0
    /\ Len(inflight) < MaxInFlight
    /\ invoking' = invoking - 1
    /\ inflight' = Append(inflight, "action")
    /\ UNCHANGED <<containers, loading, error, connected, acting,
                   expandedContainerGroups, view, rows>>
    /\ UNCHANGED <<callVars, candVars, runVars>>

\* containerAction after its first await, the command rejected with e:
\* catch { setError(String(e)) } finally { setActing("") }.
containerActionReject(e) ==
    /\ invoking > 0
    /\ invoking' = invoking - 1
    /\ error' = e
    /\ acting' = <<>>
    /\ renderContainers(containers, loading, e, expandedContainerGroups, <<>>)
    /\ UNCHANGED <<containers, loading, connected, inflight,
                   expandedContainerGroups, candVars, runVars>>

\* The headers on the page.
shownHeaders == {rows[g].key : g \in {h \in 1..Len(rows) : rows[h].kind = "header"}}

\* toggleContainerGroup(key), from a click on the header of the group:
\* prev => ({ ...prev, [key]: !prev[key] }).
toggleContainerGroup(key) ==
    /\ key \in shownHeaders
    /\ expandedContainerGroups' =
           IF key \in expandedContainerGroups
           THEN expandedContainerGroups \ {key}
           ELSE expandedContainerGroups \cup {key}
    /\ renderContainers(containers, loading, error, expandedContainerGroups', acting)
    /\ UNCHANGED <<containers, loading, error, connected, inflight, acting,
                   invoking, candVars, runVars>>

\* Any other state change of App (toast, theme, page, ...) renders the page
\* again from the same container state.
Rerender ==
    /\ renderContainers(containers, loading, error, expandedContainerGroups, acting)
    /\ UNCHANGED <<containers, loading, error, connected, inflight, acting,
                   invoking, expandedContainerGroups, candVars, runVars>>

\* The keys a header can have in the App model.
PollKeys == {<<"a">>, <<"a", "-", "1">>}

\* The App: polling, container actions and the clicks on the group headers.
Next ==
    \/ FetchStart /\ UNCHANGED history
    \/ \E k \in 1..MaxInFlight, result \in PollSnapshots :
           FetchResolve(k, result) /\ UNCHANGED history
    \/ \E k \in 1..MaxInFlight, e \in Errors : FetchReject(k, e) /\ UNCHANGED history
    \/ \E id \in PollIds : containerActionStart(id) /\ UNCHANGED history
    \/ containerActionResolve /\ UNCHANGED history
    \/ \E e \in Errors : containerActionReject(e) /\ UNCHANGED history
    \/ \E key \in PollKeys : toggleContainerGroup(key) /\ UNCHANGED history
    \/ Rerender /\ UNCHANGED history

Spec == Init /\ [][Next]_vars

-----------------------------------------------------------------------------
(* The App with nobody clicking: polling and rendering (SpecPure) *)

\* The snapshots whose calls are kept for comparison: container x alone, and
\* containers x and y in this order.
KeptSnapshots ==
    {s \in PollSnapshots :
        \/ Len(s) = 1 /\ s[1].id = <<"x">>
        \/ Len(s) = 2 /\ s[1].id = <<"x">> /\ s[2].id = <<"y">>}

\* History: the input and the output of the call that rendered the groups now
\* shown are kept, to be compared with later calls on the same snapshot.
Remember ==
    /\ view = "groups"
    /\ containers \in KeptSnapshots
    /\ seen' = <<containers, groups, FALSE>>
    /\ UNCHANGED <<appVars, candidateCounts, candidatesById, bestKeys, groups, called,
                   candVars, runVars, history>>

NextPure ==
    \/ FetchStart /\ UNCHANGED history
    \/ \E k \in 1..MaxInFlight, result \in PollSnapshots :
           FetchResolve(k, result) /\ UNCHANGED history
    \/ \E k \in 1..MaxInFlight, e \in Errors : FetchReject(k, e) /\ UNCHANGED history
    \/ Rerender /\ UNCHANGED history
    \/ Remember

SpecPure == Init /\ [][NextPure]_vars

-----------------------------------------------------------------------------
(* The App with the headers clicked: polling and expanding (SpecRender) *)

NextRender ==
    \/ FetchStart /\ UNCHANGED history
    \/ \E k \in 1..MaxInFlight, result \in PollSnapshots :
           FetchResolve(k, result) /\ UNCHANGED history
    \/ \E k \in 1..MaxInFlight, e \in Errors : FetchReject(k, e) /\ UNCHANGED history
    \/ \E key \in PollKeys : toggleContainerGroup(key) /\ UNCHANGED history
    \/ Rerender /\ UNCHANGED history

SpecRender == Init /\ [][NextRender]_vars

-----------------------------------------------------------------------------
(* The App with its replies observed: polling and container actions (SpecPoll,
   SpecHeal) *)

\* What list_containers replies in SpecPoll: no container, x alone, x and y.
ReplySnapshots == KeptSnapshots \cup {<<>>}

\* History of a list_containers reply: the k-th invocation in flight is
\* answered.  The invocations issued before it are superseded once its result
\* is applied; it is stale itself when it was superseded already, and it
\* heals when an error was on the page.
observeResolve(k, result) ==
    /\ lastReply' = [kind   |-> "applied",
                     stale  |-> (k <= superseded),
                     heals  |-> (error # ""),
                     result |-> result]
    /\ superseded' = IF k <= superseded THEN superseded - 1 ELSE k - 1
    /\ UNCHANGED actionsInFlight

observeReject(k) ==
    /\ lastReply' = [kind |-> "rejected"]
    /\ superseded' = IF k <= superseded THEN superseded - 1 ELSE superseded
    /\ UNCHANGED actionsInFlight

observeActionReject ==
    /\ lastReply' = [kind |-> "action rejected"]
    /\ UNCHANGED <<superseded, actionsInFlight>>

NextPoll ==
    \/ FetchStart /\ UNCHANGED history
    \/ \E k \in 1..MaxInFlight, result \in ReplySnapshots :
           FetchResolve(k, result) /\ observeResolve(k, result)
    \/ \E k \in 1..MaxInFlight, e \in Errors : FetchReject(k, e) /\ observeReject(k)
    \/ \E id \in PollIds : containerActionStart(id) /\ UNCHANGED history
    \/ containerActionResolve /\ UNCHANGED history
    \/ \E e \in Errors : containerActionReject(e) /\ observeActionReject

SpecPoll == Init /\ [][NextPoll]_vars

\* The interval timer goes on firing fetchContainers, and list_containers
\* succeeds again and again: the failures are transient.
Resolved == \E k \in 1..MaxInFlight, result \in ReplySnapshots :
                FetchResolve(k, result) /\ observeResolve(k, result)

SpecHeal == SpecPoll /\ WF_vars(FetchStart /\ UNCHANGED history) /\ SF_vars(Resolved)

-----------------------------------------------------------------------------
(* The App with container actions on several cards (SpecAct) *)

\* History of the containerAction calls: the id each call was made with is
\* followed from setActing(id) to the finally of that call.  A poll awaits
\* its list_containers on behalf of no call.
watchFetchStart ==
    /\ actionsInFlight' =
           [actionsInFlight EXCEPT !.refreshes = Append(@, {})]
    /\ UNCHANGED <<superseded, lastReply>>

\* The k-th list_containers invocation in flight is answered: the call that
\* awaited it, if any, runs its finally.
watchReply(k) ==
    /\ actionsInFlight' =
           [actionsInFlight EXCEPT !.refreshes = without(@, k)]
    /\ UNCHANGED <<superseded, lastReply>>

watchActionStart(id) ==
    /\ actionsInFlight' =
           [actionsInFlight EXCEPT !.commands = Append(@, id)]
    /\ UNCHANGED <<superseded, lastReply>>

\* The n-th command awaited resolved: its call goes on to await
\* fetchContainers().
watchActionResolve(n) ==
    /\ n \in 1..Len(actionsInFlight.commands)
    /\ actionsInFlight' =
           [commands  |-> without(actionsInFlight.commands, n),
            refreshes |-> Append(actionsInFlight.refreshes,
                                 {actionsInFlight.commands[n]})]
    /\ UNCHANGED <<superseded, lastReply>>

\* The n-th command awaited rejected: its call runs its catch and finally.
watchActionReject(n) ==
    /\ n \in 1..Len(actionsInFlight.commands)
    /\ actionsInFlight' =
           [actionsInFlight EXCEPT !.commands = without(@, n)]
    /\ UNCHANGED <<superseded, lastReply>>

NextAct ==
    \/ FetchStart /\ watchFetchStart
    \/ \E k \in 1..MaxInFlight, result \in ReplySnapshots :
           FetchResolve(k, result) /\ watchReply(k)
    \/ \E k \in 1..MaxInFlight, e \in Errors : FetchReject(k, e) /\ watchReply(k)
    \/ \E id \in PollIds : containerActionStart(id) /\ watchActionStart(id)
    \/ \E n \in 1..MaxActions : containerActionResolve /\ watchActionResolve(n)
    \/ \E n \in 1..MaxActions, e \in Errors :
           containerActionReject(e) /\ watchActionReject(n)
    \/ \E key \in PollKeys : toggleContainerGroup(key) /\ UNCHANGED history

SpecAct == Init /\ [][NextAct]_vars

-----------------------------------------------------------------------------
(* Properties of one call of groupContainersByNamePrefix (SpecGroup) *)

Idx == 1..Len(containers)

GroupIdx == 1..Len(groups)

\* The candidate set of the i-th input record, as the call stored it.
candsOf(i) == candidatesById[containers[i].id]

candSet(i) == Range(candsOf(i))

\* The places <<g, j>> of the output: member j of group g.
Places == UNION {{<<g, j>> : j \in 1..Len(groups[g].containers)} : g \in GroupIdx}

placesOf(c) == {pl \in Places : groups[pl[1]].containers[pl[2]] = c}

\* The groups the i-th input record is a member of.
groupsOf(i) == {g \in GroupIdx : containers[i] \in Range(groups[g].containers)}

sameGroup(i, j) == \E g \in GroupIdx : {containers[i], containers[j]} \subseteq Range(groups[g].containers)

\* C1: every input record appears in exactly one output group: the members of
\* all groups together are the input records, none lost and none duplicated.
C1_Partition ==
    called =>
        /\ \A i \in Idx : Cardinality(placesOf(containers[i])) = 1
        /\ Cardinality(Places) = Len(containers)

C1_Witness ==
    /\ called
    /\ Len(containers) = 3
    /\ Len(groups) = 2
    /\ \E g \in GroupIdx : Len(groups[g].containers) = 2

\* C2: two records of one snapshot whose candidate sets have a common element
\* are given the same key and end up in the same group.
C2_SharedCandidateSameKey ==
    called =>
        \A i, j \in Idx :
            candSet(i) \cap candSet(j) # {} =>
                /\ bestKeys[i] = bestKeys[j]
                /\ sameGroup(i, j)

C2_Witness ==
    /\ called
    /\ \E i, j \in Idx :
          /\ candSet(i) \cap candSet(j) # {}
          /\ ~(candSet(i) \subseteq candSet(j))
          /\ ~(candSet(j) \subseteq candSet(i))
          /\ bestKeys[i] = bestKeys[j]

\* The candidates of record i that are eligible: index count at least 2.
eligibleOf(i) == {cand \in candSet(i) : candidateCounts[cand] >= 2}

\* Position of a candidate in the generation order of record i.
posOf(i, cand) == CHOOSE k \in 1..Len(candsOf(i)) : candsOf(i)[k] = cand

\* cand wins over other for record i: higher count, then longer, then earlier.
winsOver(i, cand, other) ==
    \/ candidateCounts[cand] > candidateCounts[other]
    \/ /\ candidateCounts[cand] = candidateCounts[other]
       /\ Len(cand) > Len(other)
    \/ /\ candidateCounts[cand] = candidateCounts[other]
       /\ Len(cand) = Len(other)
       /\ posOf(i, cand) < posOf(i, other)

\* C3: the key of a record with an eligible candidate is the eligible candidate
\* of its own with the highest count, ties going to the longest string, then to
\* the generation order; a candidate with count below 2 is never the key then.
C3_KeySelection ==
    called =>
        \A i \in Idx :
            eligibleOf(i) # {} =>
                /\ bestKeys[i] \in eligibleOf(i)
                /\ \A other \in eligibleOf(i) \ {bestKeys[i]} :
                       winsOver(i, bestKeys[i], other)

C3_Witness ==
    /\ called
    /\ \E i \in Idx : \E other \in eligibleOf(i) :
          /\ bestKeys[i] \in eligibleOf(i)
          /\ other # bestKeys[i]
          /\ candidateCounts[other] = candidateCounts[bestKeys[i]]
          /\ posOf(i, other) < posOf(i, bestKeys[i])
          /\ candSet(i) \ eligibleOf(i) # {}

\* C4, as claimed: a record none of whose candidates has count >= 2 is keyed by
\* its own trimmed name-or-id and no other record is in the group of that key.
C4_Claim ==
    called =>
        \A i \in Idx :
            eligibleOf(i) = {} =>
                /\ bestKeys[i] = trimmedName(containers[i])
                /\ \A j \in Idx \ {i} : bestKeys[j] # bestKeys[i] /\ ~sameGroup(i, j)

\* The string the candidates of a record are to be generated from, as claimed:
\* the trimmed name, the id when the trimmed name is empty.
claimedSource(c) == IF trim(c.name) # <<>> THEN trim(c.name) ELSE trim(c.id)

\* C5, as claimed: the candidates come from the trimmed name, from the id when
\* the trimmed name is empty (a blank name included), and the candidate set is
\* empty only if that string is empty too.
C5_Claim ==
    called =>
        \A i \in Idx :
            /\ candsOf(i) # <<>> => candsOf(i)[1] = claimedSource(containers[i])
            /\ candsOf(i) = <<>> => claimedSource(containers[i]) = <<>>

\* C6, as claimed: a record with empty name and empty id is alone in its group.
C6_Claim ==
    called =>
        \A i \in Idx :
            (containers[i].name = <<>> /\ containers[i].id = <<>>) =>
                /\ \A g \in groupsOf(i) : Len(groups[g].containers) = 1
                /\ \A j \in Idx : groupsOf(j) # {}

\* C8: the frequency index maps each candidate string to the number of records
\* of the snapshot whose candidate set contains it, each record counting once.
holders(cand) == {i \in Idx : cand \in candSet(i)}

C8_FrequencyIndex ==
    called =>
        /\ DOMAIN candidateCounts = UNION {candSet(i) : i \in Idx}
        /\ \A cand \in DOMAIN candidateCounts :
               candidateCounts[cand] = Cardinality(holders(cand))

\* A record for which two generation rules give the same string (the stripped
\* form is also a prefix before a separator), held by another record as well.
C8_Witness ==
    /\ called
    /\ \E i \in Idx :
          LET t == trimmedName(containers[i])
          IN  /\ stripSuffix(t) # t
              /\ stripSuffix(t) \in DOMAIN candidateCounts
              /\ candidateCounts[stripSuffix(t)] = 2
              /\ Len(containers) = 3

\* C9: in every group runningCount is the number of running members,
\* stoppedCount the number of members in any other state, and they add up to
\* the member count.
C9_Counts ==
    called =>
        \A g \in GroupIdx :
            LET members == groups[g].containers
            IN  /\ groups[g].runningCount =
                       Cardinality({j \in 1..Len(members) : members[j].state = "running"})
                /\ groups[g].stoppedCount =
                       Cardinality({j \in 1..Len(members) : members[j].state # "running"})
                /\ groups[g].runningCount + groups[g].stoppedCount = Len(members)

C9_Witness ==
    /\ called
    /\ \E g \in GroupIdx : groups[g].runningCount = 1 /\ groups[g].stoppedCount = 2

-----------------------------------------------------------------------------
(* Properties of containerGroupCandidates (SpecCand) *)

\* The places of the separators whose prefix is not empty, left to right.
sepPlaces(t) == {k \in 2..Len(t) : t[k] \in {"-", "_"}}

\* t without one trailing "-<digits>" or "_<digits>": the forms t = r sep digits.
strippedForms(t) ==
    {SubSeq(t, 1, k - 1) :
        k \in {k \in 1..(Len(t) - 1) :
                  /\ t[k] \in {"-", "_"}
                  /\ \A j \in (k + 1)..Len(t) : t[j] \in Digits}}

\* The n-th smallest element of a set of numbers.
nth(S, n) == CHOOSE k \in S : Cardinality({j \in S : j <= k}) = n

\* The strings the three rules generate for the trimmed name t, in rule order.
generated(t) ==
    LET stripped == {r \in strippedForms(t) : r # <<>>}
        places   == sepPlaces(t)
    IN  <<t>>
        \o (IF stripped = {} THEN <<>> ELSE <<CHOOSE r \in stripped : TRUE>>)
        \o [n \in 1..Cardinality(places) |-> SubSeq(t, 1, nth(places, n) - 1)]

\* A list without the later occurrences of its elements.
firstOccurrences(list) ==
    LET kept == {k \in 1..Len(list) : \A j \in 1..(k - 1) : list[j] # list[k]}
    IN  [n \in 1..Cardinality(kept) |-> list[nth(kept, n)]]

\* C7: containerGroupCandidates returns, without duplicates and in this order,
\* the trimmed name, the name less one trailing "-<digits>"/"_<digits>" (if
\* something remains; stripped once), and the non-empty prefix before each
\* separator from left to right; nothing else; "web-01-2" gives "web-01".
C7_Candidates ==
    candDone =>
        /\ Cardinality(strippedForms(trim(candArg))) <= 1
        /\ candOut = IF trim(candArg) = <<>> THEN <<>>
                     ELSE firstOccurrences(generated(trim(candArg)))
        /\ \A k, j \in 1..Len(candOut) : k # j => candOut[k] # candOut[j]
        /\ candArg = Web012 =>
               candOut = <<Web012, SubSeq(Web012, 1, 6), SubSeq(Web012, 1, 3)>>

C7_Witness ==
    /\ candDone
    /\ candArg = Web012
    /\ Len(candOut) = 3
    /\ candOut[2] = <<"w", "e", "b", "-", "0", "1">>

-----------------------------------------------------------------------------
(* Properties of the rendered App (SpecPure) *)

\* C10: the group list shown depends only on the snapshot applied: a call on a
\* snapshot returns what an earlier call on the same snapshot returned,
\* whatever was fetched and grouped in between.
C10_Pure ==
    (view = "groups" /\ seen # <<>> /\ seen[1] = containers) => seen[2] = groups

C10_Witness ==
    /\ view = "groups"
    /\ seen # <<>>
    /\ seen[1] = containers
    /\ seen[3] = TRUE
    /\ Len(containers) = 2
    /\ Len(groups) = 1

-----------------------------------------------------------------------------
(* Order of the members and of the groups *)

Members(g) == groups[g].containers

\* a stands before b in the order C11 describes: running before not running,
\* then the name-or-id ascending, then the id ascending.
memberBefore(a, b) ==
    \/ isRunning(a) /\ ~isRunning(b)
    \/ /\ isRunning(a) = isRunning(b)
       /\ \/ localeCompare(nameOrId(a), nameOrId(b)) < 0
          \/ /\ nameOrId(a) = nameOrId(b)
             /\ localeCompare(a.id, b.id) < 0

\* C11: within every group the running members precede the members that are
\* not running; within each of the two the members ascend by name-or-id, and
\* members of equal name-or-id ascend by id; with unique ids no two members are
\* left unordered.
C11_MemberOrder ==
    called =>
        \A g \in GroupIdx :
            \A j, k \in 1..Len(Members(g)) :
                j < k => memberBefore(Members(g)[j], Members(g)[k])

\* A group whose members were reordered by all three criteria: a running
\* member moved ahead of a stopped one, and two members of one name put in the
\* order of their ids against the input order.
C11_Witness ==
    /\ called
    /\ Len(containers) = 3
    /\ ~isRunning(containers[1])
    /\ isRunning(containers[2]) /\ isRunning(containers[3])
    /\ nameOrId(containers[2]) = nameOrId(containers[3])
    /\ localeCompare(containers[3].id, containers[2].id) < 0
    /\ Len(groups) = 1
    /\ Members(1) = <<containers[3], containers[2], containers[1]>>

hasRunning(g) == \E j \in 1..Len(Members(g)) : isRunning(Members(g)[j])

\* C12: the groups with at least one running member precede the groups with
\* none; within the same class a larger group precedes a smaller one; groups
\* of the same class and size ascend by key, and no two groups are left
\* unordered.
C12_GroupOrder ==
    called =>
        \A g, h \in GroupIdx :
            g < h =>
                \/ hasRunning(g) /\ ~hasRunning(h)
                \/ /\ hasRunning(g) = hasRunning(h)
                   /\ \/ Len(Members(g)) > Len(Members(h))
                      \/ /\ Len(Members(g)) = Len(Members(h))
                         /\ localeCompare(groups[g].key, groups[h].key) < 0

\* A singleton with a running member stands before a larger group without
\* one.
C12_Witness ==
    /\ called
    /\ Len(groups) = 2
    /\ hasRunning(1) /\ ~hasRunning(2)
    /\ Len(Members(1)) = 1
    /\ Len(Members(2)) = 2

\* C13: no group of the output has zero members.
C13_NoEmptyGroup ==
    called => \A g \in GroupIdx : Len(Members(g)) >= 1

\* Three records, each alone in its group.
C13_Witness ==
    /\ called
    /\ Len(containers) = 3
    /\ Len(groups) = 3

-----------------------------------------------------------------------------
(* The worked examples *)

namesOf(items) == [j \in 1..Len(items) |-> items[j].name]

\* C16 (Scenario A): the running records "web-1", "web-2" and "api-1" give
\* exactly two groups: first the group of key "web" with the members "web-1",
\* "web-2" in this order, then the group of key "api-1" with its one record.
C16_ScenarioA ==
    (called /\ containers \in ScenarioA) =>
        /\ Len(groups) = 2
        /\ groups[1].key = web
        /\ namesOf(Members(1)) = <<web1, web2>>
        /\ groups[2].key = api1
        /\ namesOf(Members(2)) = <<api1>>

\* The example with its records listed in the opposite order.
C16_Witness ==
    /\ called
    /\ containers \in ScenarioA
    /\ namesOf(containers) = <<api1, web2, web1>>
    /\ Len(groups) = 2

\* C17 (Scenario B): "db" running, "db-replica-1" stopped and "db-replica-2"
\* running give one group of key "db", the candidate that three records
\* share, with the members "db", "db-replica-2", "db-replica-1" in this order;
\* "db-replica", shared by two records, is no group's key.
C17_ScenarioB ==
    (called /\ containers \in ScenarioB) =>
        /\ getCount(candidateCounts, db) = 3
        /\ getCount(candidateCounts, dbReplica) = 2
        /\ Len(groups) = 1
        /\ groups[1].key = db
        /\ namesOf(Members(1)) = <<db, dbReplica2, dbReplica1>>
        /\ \A i \in Idx : bestKeys[i] # dbReplica

\* The example with the stopped record listed first.
C17_Witness ==
    /\ called
    /\ containers \in ScenarioB
    /\ namesOf(containers) = <<dbReplica1, dbReplica2, db>>
    /\ groups[1].runningCount = 2

\* C18 (Scenario C): one record with an empty name and the id "c1" has the
\* candidates {"c1"}, the index counts "c1" once, and the output is one
\* group of key "c1" with this record alone.
C18_ScenarioC ==
    (called /\ containers \in ScenarioC) =>
        /\ candidatesById[c1] = <<c1>>
        /\ DOMAIN candidateCounts = {c1}
        /\ candidateCounts[c1] = 1
        /\ Len(groups) = 1
        /\ groups[1].key = c1
        /\ Members(1) = containers

C18_Witness ==
    /\ called
    /\ containers \in ScenarioC
    /\ bestKeys = <<c1>>

\* C19 (Scenario D): the empty snapshot gives the empty list of groups.
C19_ScenarioD ==
    (called /\ containers \in ScenarioD) => groups = <<>>

C19_Witness ==
    /\ called
    /\ containers = <<>>
    /\ candidateCounts = emptyMap

-----------------------------------------------------------------------------
(* Overlapping refreshes (SpecPoll) *)

\* C14: the result of a list_containers request is never applied once the
\* result of a request issued after it has been applied: a reply that is
\* applied is not a stale one.
C14_Claim ==
    lastReply.kind = "applied" => ~lastReply.stale

-----------------------------------------------------------------------------
(* Rows of the groups (SpecRender) *)

\* C15: the page has one row per group, in the order of the groups; the row is
\* the plain card of the only member exactly when the group has one member,
\* and a header exactly when it has more than one; the header has the cards of
\* all members under it while its key is expanded and none otherwise.
C15_Rows ==
    view = "groups" =>
        /\ Len(rows) = Len(groups)
        /\ \A g \in GroupIdx :
              /\ rows[g].kind = "card" <=> Len(Members(g)) = 1
              /\ rows[g].kind = "header" <=> Len(Members(g)) > 1
              /\ rows[g].kind = "card" => rows[g].container = Members(g)[1]
              /\ rows[g].kind = "header" =>
                    /\ rows[g].key = groups[g].key
                    /\ [j \in 1..Len(rows[g].children) |-> rows[g].children[j].container]
                           = IF groups[g].key \in expandedContainerGroups
                             THEN Members(g) ELSE <<>>

\* The header of a group of two members none of which is running, with both
\* cards under it; the other key of the model, of a group shown before, is
\* still expanded.
C15_Witness ==
    /\ view = "groups"
    /\ Len(rows) = 1
    /\ rows[1].kind = "header"
    /\ ~rows[1].hasRunning
    /\ Len(rows[1].children) = 2
    /\ Cardinality(expandedContainerGroups) = 2

-----------------------------------------------------------------------------
(* Recovery from a failure (SpecHeal) *)

\* The container page shows the list of the snapshot: its groups, or the
\* empty state when the snapshot has no container.
listShown ==
    /\ ~loading
    /\ error = ""
    /\ connected
    /\ view = IF containers = <<>> THEN "empty" ELSE "groups"
    /\ view = "groups" => groups = groupContainersByNamePrefix(containers, emptyMap).out

\* C20: a failure heals on a later cycle without a retry: whenever the reply
\* handled last is a successful refresh, the error is cleared, the runtime is
\* marked connected and the list of the snapshot of that reply is shown; and
\* polling goes on after a failed list_containers or container command, so
\* that an error on the page leads to the list being shown again.
C20_SelfHeal ==
    /\ [](lastReply.kind = "applied" => (listShown /\ containers = lastReply.result))
    /\ (error # "") ~> listShown

\* A refresh resolved while an error was on the page, and nothing is awaited.
C20_Witness ==
    /\ lastReply.kind = "applied"
    /\ lastReply.heals
    /\ listShown
    /\ view = "groups"
    /\ inflight = <<>>
    /\ invoking = 0

-----------------------------------------------------------------------------
(* The call run statement by statement (SpecRun) *)

\* Every record has a non-empty id.
wellFormed == \A i \in Idx : containers[i].id # <<>>

\* The value is a list of groups: each with a key, its members and its counts.
isGroupList(gs) ==
    \A g \in 1..Len(gs) :
        /\ DOMAIN gs[g] = {"key", "containers", "runningCount", "stoppedCount"}
        /\ Range(gs[g].containers) \subseteq Range(containers)

\* The places of a call: at each of them but "returned" a statement can be
\* executed, the body of the loop or its exit.
Labels == {"idle", "first", "second", "third", "sort", "return", "returned"}

\* The phases a call at pc still has before it, this one included.
phasesLeft ==
    CASE pc = "first"    -> 5
      [] pc = "second"   -> 4
      [] pc = "third"    -> 3
      [] pc = "sort"     -> 2
      [] pc = "return"   -> 1
      [] pc = "returned" -> 0
      [] OTHER           -> 6

\* The turns the loop at pc still has before it: the collection it iterates
\* is read anew at every turn.
turnsLeft ==
    IF pc \in {"first", "second"} THEN Len(containers) + 1 - idx
    ELSE IF pc = "third" THEN Len(groupsMap) + 1 - idx
    ELSE 0

\* A bound on the statements a call still executes.
rank == phasesLeft * (Len(containers) + 2) + turnsLeft

\* C21: called on a snapshot all of whose records have a non-empty id,
\* groupContainersByNamePrefix terminates and returns a list of groups: no
\* statement throws, every statement executed brings the call nearer to its
\* return (the bound on the statements left decreases and is never negative),
\* and what is returned is a list of groups.
C21_Terminates ==
    /\ [](wellFormed => (pc \in Labels /\ turnsLeft >= 0))
    /\ [][(pc # "idle" /\ wellFormed) => rank' < rank]_vars
    /\ []((pc = "returned" /\ wellFormed) => (rank = 0 /\ called /\ isGroupList(groups)))

\* A call on three well-formed records, one with an empty name, has returned.
C21_Witness ==
    /\ pc = "returned"
    /\ wellFormed
    /\ Len(containers) = 3
    /\ \E i \in Idx : containers[i].name = <<>>
    /\ Len(groups) = 2

\* C22: from its entry on, no statement of groupContainersByNamePrefix changes
\* its input: the snapshot keeps its length, its order and its records; the
\* arrays sorted in place are the arrays of the Map and out.
C22_InputUnchanged ==
    [][pc # "idle" => containers' = containers]_vars

\* The members of the only group were sorted into an order that is not the
\* order of the snapshot, and the call has returned.
C22_Witness ==
    /\ pc = "returned"
    /\ Len(containers) = 3
    /\ Len(groups) = 1
    /\ Members(1) # containers
    /\ groupsMap[1].items = Members(1)

-----------------------------------------------------------------------------
(* Order of the input (SpecRun) *)

Bijections(n) == {p \in [1..n -> 1..n] : \A i, j \in 1..n : i # j => p[i] # p[j]}

Reorderings(cs) == {[i \in 1..Len(cs) |-> cs[p[i]]] : p \in Bijections(Len(cs))}

\* C24: the result does not depend on the order of the records: every
\* permutation of the snapshot (ids unique) gives the same groups in the same
\* order with the same members in the same order.
C24_OrderIndependent ==
    pc = "returned" =>
        \A cs \in Reorderings(containers) :
            groupContainersByNamePrefix(cs, emptyMap).out = groups

\* Two records of one name and state, listed against the order of their ids,
\* and a third one with them in the group.
C24_Witness ==
    /\ pc = "returned"
    /\ Len(containers) = 3
    /\ containers[1].name = containers[2].name
    /\ containers[1].state = containers[2].state
    /\ localeCompare(containers[2].id, containers[1].id) < 0
    /\ Len(groups) = 1

-----------------------------------------------------------------------------
(* A failed refresh (SpecPoll) *)

\* A list_containers invocation is answered in this step.
replied == Len(inflight') < Len(inflight)

\* C23: a failed list_containers refresh leaves the stored snapshot as it
\* was, sets the error text and sets connected to false; every reply, success
\* or failure, leaves loading false; and loading, once false, is never true
\* again.
C23_FailedRefresh ==
    /\ [][(replied /\ lastReply'.kind = "rejected") =>
            /\ containers' = containers
            /\ error' \in Errors
            /\ ~connected'
            /\ ~loading']_vars
    /\ [][replied => ~loading']_vars
    /\ [][~loading => ~loading']_vars

\* A refresh failed after an earlier one had stored a snapshot: the snapshot
\* is still there, with the error, and the list was shown before.
C23_Witness ==
    /\ lastReply.kind = "rejected"
    /\ containers # <<>>
    /\ error \in Errors
    /\ ~connected
    /\ ~loading
    /\ inflight = <<>>

-----------------------------------------------------------------------------
(* Keys and candidate prefixes (SpecKey, SpecCand) *)

\* Record i has a non-empty trimmed name-or-id, (c.name || c.id).trim().
named(i) == trimmedName(containers[i]) # <<>>

\* The shortest of the candidates the call stored for record i.
shortestCandidate(i) ==
    CHOOSE cand \in candSet(i) : \A other \in candSet(i) : Len(cand) <= Len(other)

\* The full string when no separator follows its first character, otherwise
\* what stands before the first such separator.
beforeFirstSeparator(t) ==
    IF sepPlaces(t) = {} THEN t ELSE SubSeq(t, 1, nth(sepPlaces(t), 1) - 1)

\* C25: of two records with a non-empty trimmed name-or-id, both are in the
\* same group exactly when their shortest candidates are the same string; the
\* shortest candidate is the full name when no separator follows its first
\* character and the first non-empty prefix before a separator otherwise.
C25_SameShortestCandidate ==
    called =>
        \A i, j \in Idx :
            (named(i) /\ named(j)) =>
                /\ shortestCandidate(i) = beforeFirstSeparator(trimmedName(containers[i]))
                /\ sameGroup(i, j) <=> (shortestCandidate(i) = shortestCandidate(j))

\* Two records with different names and keys shorter than the names share a
\* group, a third one with another shortest candidate is in another group.
C25_Witness ==
    /\ called
    /\ \E i, j, k \in Idx :
          /\ named(i) /\ named(j) /\ named(k)
          /\ trimmedName(containers[i]) # trimmedName(containers[j])
          /\ shortestCandidate(i) = shortestCandidate(j)
          /\ Len(shortestCandidate(i)) < Len(bestKeys[i])
          /\ Len(bestKeys[i]) < Len(trimmedName(containers[i]))
          /\ sameGroup(i, j)
          /\ shortestCandidate(k) # shortestCandidate(i)
          /\ ~sameGroup(i, k)

\* The candidates of record i whose count is that of its shortest candidate.
topCandidates(i) ==
    {cand \in candSet(i) : candidateCounts[cand] = candidateCounts[shortestCandidate(i)]}

\* C26: of two candidates of one record the shorter one is held by every
\* record that holds the longer one, so its count is not lower; and the key of
\* a record with candidates is the longest of its candidates whose count is
\* that of its shortest candidate.
C26_MonotoneCounts ==
    called =>
        \A i \in Idx :
            /\ \A X, Y \in candSet(i) :
                   Len(X) < Len(Y) =>
                       /\ holders(Y) \subseteq holders(X)
                       /\ candidateCounts[X] >= candidateCounts[Y]
            /\ candSet(i) # {} =>
                   /\ bestKeys[i] \in topCandidates(i)
                   /\ \A other \in topCandidates(i) : Len(other) <= Len(bestKeys[i])

\* A record with three candidates of three different counts: the key is the
\* shortest one; and a record whose two shorter candidates tie on the count.
C26_Witness ==
    /\ called
    /\ \E i \in Idx : \E X, Y \in candSet(i) :
          /\ Len(X) < Len(Y)
          /\ candidateCounts[X] = 3
          /\ candidateCounts[Y] = 2
          /\ bestKeys[i] = X
          /\ Cardinality(candSet(i)) = 3

\* C27, as claimed: the key of a group of two or more members is a candidate
\* of every member, its count is the number of members, and every record that
\* holds it is a member.
C27_Claim ==
    called =>
        \A g \in GroupIdx :
            Len(groups[g].containers) >= 2 =>
                /\ \A i \in Idx : g \in groupsOf(i) => groups[g].key \in candSet(i)
                /\ getCount(candidateCounts, groups[g].key) = Len(groups[g].containers)
                /\ \A i \in holders(groups[g].key) : g \in groupsOf(i)

\* C28: the key of a group whose only member has a non-empty trimmed
\* name-or-id is that full trimmed name-or-id, never the name less its
\* instance suffix or a prefix of it.
C28_SingletonKey ==
    called =>
        \A g \in GroupIdx : \A i \in Idx :
            (Len(groups[g].containers) = 1 /\ g \in groupsOf(i) /\ named(i)) =>
                groups[g].key = trimmedName(containers[i])

\* A group of one whose member has an instance suffix and a prefix before a
\* separator, next to a group of two.
C28_Witness ==
    /\ called
    /\ \E g, h \in GroupIdx : \E i \in Idx :
          /\ Len(groups[g].containers) = 1
          /\ Len(groups[h].containers) = 2
          /\ g \in groupsOf(i)
          /\ Cardinality(candSet(i)) >= 2
          /\ stripSuffix(trimmedName(containers[i])) # trimmedName(containers[i])

\* All orders of the elements of a list.
orderings(list) ==
    {[k \in 1..Len(list) |-> list[f[k]]] :
        f \in {f \in [1..Len(list) -> 1..Len(list)] :
                  \A a, b \in 1..Len(list) : a # b => f[a] # f[b]}}

TieCounts == 1..3

\* C29: the name less its instance suffix, when it is a candidate, is the full
\* name or the prefix before one of its separators; all candidates are
\* prefixes of the trimmed name, no two of the same length; so the order in
\* which the candidates were generated does not decide the selected key:
\* whatever the counts, every order of the candidates selects the same key.
C29_NoNewCandidate ==
    candDone =>
        LET t        == trim(candArg)
            prefixes == {SubSeq(t, 1, k - 1) : k \in sepPlaces(t)}
        IN  /\ stripSuffix(t) # <<>> => stripSuffix(t) \in {t} \cup prefixes
            /\ t # <<>> => Range(candOut) = {t} \cup prefixes
            /\ \A k \in 1..Len(candOut) : candOut[k] = SubSeq(t, 1, Len(candOut[k]))
            /\ \A k, j \in 1..Len(candOut) : k # j => Len(candOut[k]) # Len(candOut[j])
            /\ \A list \in orderings(candOut) :
                   \A counts \in [Range(candOut) -> TieCounts] :
                       selectLoop(list, counts, [key |-> t, count |-> 1, len |-> 0])
                           = selectLoop(candOut, counts, [key |-> t, count |-> 1, len |-> 0])

\* A name whose instance suffix is stripped to the prefix before its second
\* separator: three candidates, the stripped form among the prefixes.
C29_Witness ==
    /\ candDone
    /\ Len(candOut) = 3
    /\ stripSuffix(trim(candArg)) = candOut[2]
    /\ candOut[2] # trim(candArg)
    /\ Cardinality(sepPlaces(trim(candArg))) = 2

-----------------------------------------------------------------------------
(* Buttons of a container being acted on (SpecAct) *)

\* The ids of the containers with an action in flight: the command was
\* invoked and the call has not run its finally yet.
actionIds ==
    Range(actionsInFlight.commands) \cup UNION Range(actionsInFlight.refreshes)

\* C30, as claimed: the buttons of a container with an action in flight are
\* disabled, whatever actions on other containers are under way; and the
\* acting marker is empty whenever no action is in flight.
C30_Claim ==
    /\ \A card \in shownCards : card.container.id \in actionIds => card.disabled
    /\ actionIds = {} => acting = <<>>

=============================================================================
